---- MODULE Spec2Model ----
(***************************************************************************)
(* Model of ffexport/parse_db.py: the sqlite reader (_sanity_check,        *)
(* _execute_conn, _execute_query), the three row converters               *)
(* (single_db_visits, single_db_sitedata, read_visits) and the in-memory   *)
(* merge (single_db_merge).                                                *)
(*                                                                         *)
(* Text values are sequences of code points, so that percent-decoding is   *)
(* computed and not assumed.  Python's None / SQL NULL is NULL.            *)
(***************************************************************************)
EXTENDS Integers, Sequences, FiniteSets, TLC

VARIABLES
    \* ---- single_db_merge (a generator): its arguments, locals and output
    visit_list,     \* argument: sequence of MozVisit
    site_list,      \* argument: sequence of MozPlace
    site_dict,      \* local: place_id -> MozPlace
    mpc,            \* position of the generator: "idle", "build", "emit", "done"
    si,             \* elements pulled from site_list so far
    vi,             \* elements pulled from visit_list so far
    out,            \* Visits yielded so far
    trace,          \* history of the generator's pulls and yields
    \* ---- a caller comparing read_visits with the three-step pipeline
    db,             \* content of one places.sqlite
    combined,       \* list(read_visits(db)), NotRun before it ran
    epc,            \* position of that caller
    \* ---- the reader: _sanity_check's cache, connections, one generator
    store,          \* path -> what sqlite finds in the file
    cache,          \* lru_cache of _sanity_check: paths whose call returned
    probes,         \* path -> number of "SELECT * from moz_meta" executed
    conns,          \* sequence of connections opened so far
    gen,            \* the _execute_query generator the caller holds
    nops            \* number of calls the caller made

mergeVars  == <<visit_list, site_list, site_dict, mpc, si, vi, out, trace>>
equivVars  == <<db, combined, epc>>
readerVars == <<store, cache, probes, conns, gen, nops>>
vars == <<visit_list, site_list, site_dict, mpc, si, vi, out, trace,
          db, combined, epc, store, cache, probes, conns, gen, nops>>

(***************************************************************************)
(* Bounds                                                                  *)
(***************************************************************************)
MaxVisits == 2      \* longest visit_list handed to single_db_merge
MaxSites == 2       \* longest site_list handed to single_db_merge
MaxPages == 2       \* rows of moz_places
MaxDbVisits == 2    \* rows of moz_historyvisits
MaxRows == 2        \* rows a query of the reader model returns
MaxOps == 3         \* calls the caller of the reader makes

(***************************************************************************)
(* Values                                                                  *)
(***************************************************************************)
NULL == <<-1>>
NotRun == <<-2>>

\* microseconds per second, the divisor of visit_date
MICROS == 1000000

SeqsUpTo(S, n) == UNION {[1..k -> S] : k \in 0..n}

Range(s) == {s[i] : i \in DOMAIN s}

\* code points: "a"=97 "b"=98 "%"=37 "2"=50 "0"=48 "T"=84 "D"=68 "i"=105
TextA == <<97>>
TextEsc == <<97, 37, 50, 48, 98>>
TextT == <<84>>
TextD == <<68>>
TextImg == <<105, 37, 50, 48>>
TextBadEsc == <<37, 50, 122>>

(***************************************************************************)
(* urllib.parse.unquote and datetime.fromtimestamp(us / 1_000_000, utc)    *)
(***************************************************************************)
IsHex(c) == c \in (48..57) \cup (65..70) \cup (97..102)

HexVal(c) == IF c \in 48..57 THEN c - 48
             ELSE IF c \in 65..70 THEN c - 55 ELSE c - 87

\* a decoded byte as text: ASCII as itself, a lone non-ASCII byte as U+FFFD
DecodeByte(b) == IF b < 128 THEN b ELSE 65533

RECURSIVE unquote(_)
unquote(s) ==
    IF s = <<>> THEN <<>>
    ELSE IF s[1] = 37 /\ Len(s) >= 3 /\ IsHex(s[2]) /\ IsHex(s[3])
         THEN <<DecodeByte(16 * HexVal(s[2]) + HexVal(s[3]))>>
                  \o unquote(SubSeq(s, 4, Len(s)))
         ELSE <<s[1]>> \o unquote(Tail(s))

fromtimestamp(us) == [sec |-> us \div MICROS, micro |-> us % MICROS]

(***************************************************************************)
(* single_db_merge                                                         *)
(***************************************************************************)
EmptyDict == [k \in {} |-> NULL]

\* variant: the first element with a place_id is kept
SiteDictPutFirstWins(d, s) ==
    IF s.place_id \in DOMAIN d THEN d
    ELSE [k \in DOMAIN d \cup {s.place_id} |->
             IF k = s.place_id THEN s ELSE d[k]]

\* site_dict[s.place_id] = s
SiteDictPut(d, s) ==
    [k \in DOMAIN d \cup {s.place_id} |-> IF k = s.place_id THEN s ELSE d[k]]

\* variant: the first loop left after one element
SiteListExhaustedEarly == si >= 1 \/ si = Len(site_list)

\* the for loop over site_list has run out
SiteListExhausted == si = Len(site_list)

\* the Visit built for v from the dict
MakeVisit(v, d) ==
    LET hit == v.place_id \in DOMAIN d
    IN  [url           |-> v.url,
         visit_date    |-> v.visit_date,
         visit_type    |-> v.visit_type,
         title         |-> IF hit THEN d[v.place_id].title ELSE NULL,
         description   |-> IF hit THEN d[v.place_id].description ELSE NULL,
         preview_image |-> IF hit THEN d[v.place_id].preview_image ELSE NULL]

\* variant: a Visit equal to an earlier one is not yielded again
YieldVisitDedup(o, x) == IF x \in Range(o) THEN o ELSE Append(o, x)

\* yield Visit(...)
YieldVisit(o, x) == Append(o, x)

\* for s in site_list: site_dict[s.place_id] = s
MergeBuildPull ==
    /\ mpc = "build"
    /\ ~SiteListExhausted
    /\ si' = si + 1
    /\ site_dict' = SiteDictPut(site_dict, site_list[si + 1])
    /\ trace' = Append(trace, "pullM")
    /\ UNCHANGED <<visit_list, site_list, mpc, vi, out,
                 equivVars, readerVars>>

\* the site_list iterator stops: fall through to the second loop
MergeBuildEnd ==
    /\ mpc = "build"
    /\ SiteListExhausted
    /\ mpc' = "emit"
    /\ trace' = Append(trace, "endM")
    /\ UNCHANGED <<visit_list, site_list, site_dict, si, vi, out,
                 equivVars, readerVars>>

\* for v in visit_list: ... yield Visit(...)
MergeEmitPull ==
    /\ mpc = "emit"
    /\ vi < Len(visit_list)
    /\ vi' = vi + 1
    /\ out' = YieldVisit(out, MakeVisit(visit_list[vi + 1], site_dict))
    /\ trace' = trace \o <<"pullV", "yield">>
    /\ UNCHANGED <<visit_list, site_list, site_dict, mpc, si,
                 equivVars, readerVars>>

\* the visit_list iterator stops: the generator returns
MergeEmitEnd ==
    /\ mpc = "emit"
    /\ vi = Len(visit_list)
    /\ mpc' = "done"
    /\ trace' = Append(trace, "endV")
    /\ UNCHANGED <<visit_list, site_list, site_dict, si, vi, out,
                 equivVars, readerVars>>

(***************************************************************************)
(* The store: moz_places, moz_historyvisits, and the three queries         *)
(***************************************************************************)
\* visit rowids whose place_id names a row of moz_places, in rowid order
RECURSIVE JoinByVisit(_, _)
JoinByVisit(d, i) ==
    IF i > Len(d.visits) THEN <<>>
    ELSE (IF d.visits[i].place_id \in DOMAIN d.pages THEN <<i>> ELSE <<>>)
             \o JoinByVisit(d, i + 1)

\* the same rows with moz_places as the outer loop
RECURSIVE JoinByPlace(_, _)
JoinByPlace(d, p) ==
    IF p > Len(d.pages) THEN <<>>
    ELSE SelectSeq([i \in 1..Len(d.visits) |-> i],
                   LAMBDA i : d.visits[i].place_id = p)
             \o JoinByPlace(d, p + 1)

\* FROM moz_historyvisits as V, moz_places as P WHERE V.place_id = P.id
\* There is no ORDER BY: the rows come in the order of the plan sqlite picks
\* for the statement, from the indexes and statistics of the file.
JoinRows(d, plan) ==
    IF plan = "byVisit" THEN JoinByVisit(d, 1) ELSE JoinByPlace(d, 1)

VISIT_QUERY(d) ==
    LET j == JoinRows(d, d.planVisit)
    IN  [k \in 1..Len(j) |->
            [url        |-> d.pages[d.visits[j[k]].place_id].url,
             pid        |-> d.visits[j[k]].place_id,
             vid        |-> j[k],
             visit_date |-> d.visits[j[k]].visit_date,
             visit_type |-> d.visits[j[k]].visit_type]]

\* variant: AND in place of OR
SitedataWhereAll(r) ==
    r.title # NULL /\ r.description # NULL /\ r.preview_image_url # NULL

\* WHERE P.title IS NOT NULL OR P.description IS NOT NULL
\*    OR P.preview_image_url IS NOT NULL
SitedataWhere(r) ==
    r.title # NULL \/ r.description # NULL \/ r.preview_image_url # NULL

SITEDATA_QUERY(d) ==
    LET all == [p \in 1..Len(d.pages) |->
                   [pid               |-> p,
                    title             |-> d.pages[p].title,
                    description       |-> d.pages[p].description,
                    preview_image_url |-> d.pages[p].preview_image_url]]
    IN  SelectSeq(all, SitedataWhere)

COMBINED_QUERY(d) ==
    LET j == JoinRows(d, d.planCombined)
    IN  [k \in 1..Len(j) |->
            LET P == d.pages[d.visits[j[k]].place_id]
                V == d.visits[j[k]]
            IN  [url               |-> P.url,
                 visit_date        |-> V.visit_date,
                 visit_type        |-> V.visit_type,
                 title             |-> P.title,
                 description       |-> P.description,
                 preview_image_url |-> P.preview_image_url]]

(***************************************************************************)
(* The row converters                                                      *)
(***************************************************************************)
single_db_visits(d) ==
    LET rows == VISIT_QUERY(d)
    IN  [k \in 1..Len(rows) |->
            [url        |-> unquote(rows[k].url),
             place_id   |-> rows[k].pid,
             visit_id   |-> rows[k].vid,
             visit_date |-> fromtimestamp(rows[k].visit_date),
             visit_type |-> rows[k].visit_type]]

single_db_sitedata(d) ==
    LET rows == SITEDATA_QUERY(d)
    IN  [k \in 1..Len(rows) |->
            [place_id      |-> rows[k].pid,
             title         |-> rows[k].title,
             description   |-> rows[k].description,
             preview_image |-> IF rows[k].preview_image_url # NULL
                               THEN unquote(rows[k].preview_image_url)
                               ELSE NULL]]

read_visits(d) ==
    LET rows == COMBINED_QUERY(d)
    IN  [k \in 1..Len(rows) |->
            [url           |-> unquote(rows[k].url),
             visit_date    |-> fromtimestamp(rows[k].visit_date),
             visit_type    |-> rows[k].visit_type,
             title         |-> rows[k].title,
             description   |-> rows[k].description,
             preview_image |-> IF rows[k].preview_image_url # NULL
                               THEN unquote(rows[k].preview_image_url)
                               ELSE NULL]]

(***************************************************************************)
(* A caller that reads one store both ways                                 *)
(***************************************************************************)
\* visits = list(single_db_visits(p))
LoadVisits ==
    /\ epc = "visits"
    /\ visit_list' = single_db_visits(db)
    /\ epc' = "sitedata"
    /\ UNCHANGED <<site_list, site_dict, mpc, si, vi, out, trace, db, combined,
                 readerVars>>

\* sites = list(single_db_sitedata(p)); merged = single_db_merge(visits, sites)
LoadSitedata ==
    /\ epc = "sitedata"
    /\ site_list' = single_db_sitedata(db)
    /\ mpc' = "build"
    /\ epc' = "merge"
    /\ UNCHANGED <<visit_list, site_dict, si, vi, out, trace, db, combined,
                 readerVars>>

\* direct = list(read_visits(p)), once merged is consumed
LoadCombined ==
    /\ epc = "merge"
    /\ mpc = "done"
    /\ combined' = read_visits(db)
    /\ epc' = "done"
    /\ UNCHANGED <<mergeVars, db, readerVars>>

(***************************************************************************)
(* The reader: _sanity_check, _execute_conn, _execute_query                *)
(*                                                                         *)
(* A store is what sqlite finds behind a path: whether moz_meta can be     *)
(* selected from, how many rows the query has, and badAt, the fetch        *)
(* (1-based) at which sqlite raises DatabaseError, 0 for none.             *)
(***************************************************************************)
Paths == {"p1", "p2"}

Stores ==
    {st \in [hasMeta : BOOLEAN, nrows : 0..MaxRows, badAt : 0..(MaxRows + 1)] :
        st.badAt <= st.nrows + 1}

NoGen == [kind |-> "none", path |-> "none", conn |-> 0, pc |-> "none",
          started |-> FALSE, pos |-> 0, delivered |-> 0, err |-> "none",
          executed |-> FALSE]

Live == {"created", "suspended"}

\* lru_cache: a hit returns the stored None without running the body
CacheHit(p) == p \in cache

\* conn.execute("SELECT * from moz_meta") raises sqlite3.DatabaseError
ProbeRaises(p) == ~store[p].hasMeta

\* _sanity_check(p) raises
SanityRaises(p) == ~CacheHit(p) /\ ProbeRaises(p)

\* variant: a cache that also remembers the calls that raised
CacheAfterAlways(p) == cache \cup {p}

\* the cache after _sanity_check(p): lru_cache stores returned values only
CacheAfter(p) == IF CacheHit(p) \/ ~ProbeRaises(p) THEN cache \cup {p} ELSE cache

\* the probe counter after _sanity_check(p)
ProbesAfter(p) ==
    IF CacheHit(p) THEN probes ELSE [probes EXCEPT ![p] = probes[p] + 1]

\* variant: the check without the isinstance test
NeedsSanityCheckAlways(g) == TRUE

\* isinstance(sqlite_path, Path) or isinstance(sqlite_path, str)
NeedsSanityCheck(g) == g.kind = "path"

\* variant: read errors swallowed
FetchRaisesNever(st, k) == FALSE

\* the k-th fetch of "for row in conn.execute(query)" raises
FetchRaises(st, k) == st.badAt = k

\* variant: the connection of the query closed on the way out, whoever owns it
ExitQueryClosing(g, cs) ==
    IF g.conn \in DOMAIN cs THEN [cs EXCEPT ![g.conn].open = FALSE] ELSE cs

\* what leaving _execute_query does to the connections: nothing for a
\* caller's connection; for a path, Connection.__exit__ of the with
\* statement, which commits or rolls back and does not close
ExitQuery(g, cs) == IF g.kind = "conn" THEN cs ELSE cs

\* the caller calls _sanity_check(p) itself
SanityCheckCall(p) ==
    /\ nops < MaxOps
    /\ gen.pc \notin Live
    /\ cache' = CacheAfter(p)
    /\ probes' = ProbesAfter(p)
    /\ nops' = nops + 1
    /\ UNCHANGED <<store, conns, gen, mergeVars, equivVars>>

\* the caller opens a connection of its own, one to a path
CallerConnect(p) ==
    /\ nops < MaxOps
    /\ gen.pc \notin Live
    /\ \A c \in DOMAIN conns : conns[c].owner = "caller" => conns[c].path # p
    /\ conns' = Append(conns, [path |-> p, owner |-> "caller", open |-> TRUE])
    /\ nops' = nops + 1
    /\ UNCHANGED <<store, cache, probes, gen, mergeVars, equivVars>>

\* the caller calls a query with a path: a generator is made, no code runs
StartQueryPath(p) ==
    /\ nops < MaxOps
    /\ gen.pc \notin Live
    /\ gen' = [NoGen EXCEPT !.kind = "path", !.path = p, !.pc = "created"]
    /\ nops' = nops + 1
    /\ UNCHANGED <<store, cache, probes, conns, mergeVars, equivVars>>

\* the caller calls a query with a connection it opened
StartQueryConn(c) ==
    /\ nops < MaxOps
    /\ gen.pc \notin Live
    /\ c \in DOMAIN conns
    /\ conns[c].owner = "caller"
    /\ conns[c].open
    /\ gen' = [NoGen EXCEPT !.kind = "conn", !.path = conns[c].path,
                            !.conn = c, !.pc = "created"]
    /\ nops' = nops + 1
    /\ UNCHANGED <<store, cache, probes, conns, mergeVars, equivVars>>

\* next() on the generator: on the first call the sanity check, the connect
\* and the execute; on every call one fetch, then a yield, the end or an error
Resume ==
    /\ gen.pc \in Live
    /\ LET first  == gen.pc = "created"
           check  == first /\ NeedsSanityCheck(gen)
           st     == store[gen.path]
           opened == first /\ gen.kind = "path"
           cs     == IF opened
                     THEN Append(conns, [path |-> gen.path, owner |-> "reader",
                                         open |-> TRUE])
                     ELSE conns
           g      == [gen EXCEPT !.started = TRUE, !.executed = TRUE,
                                 !.conn = IF opened THEN Len(cs) ELSE @]
           k      == gen.pos + 1
       IN  /\ cache' = IF check THEN CacheAfter(gen.path) ELSE cache
           /\ probes' = IF check THEN ProbesAfter(gen.path) ELSE probes
           /\ IF check /\ SanityRaises(gen.path)
              THEN /\ gen' = [gen EXCEPT !.started = TRUE, !.pc = "raised",
                                         !.err = "SchemaError"]
                   /\ conns' = conns
              ELSE IF FetchRaises(st, k)
              THEN /\ gen' = [g EXCEPT !.pc = "raised", !.err = "ReadError"]
                   /\ conns' = ExitQuery(g, cs)
              ELSE IF k > st.nrows
              THEN /\ gen' = [g EXCEPT !.pc = "exhausted"]
                   /\ conns' = ExitQuery(g, cs)
              ELSE /\ gen' = [g EXCEPT !.pc = "suspended", !.pos = k,
                                       !.delivered = @ + 1]
                   /\ conns' = cs
    /\ UNCHANGED <<store, nops, mergeVars, equivVars>>

\* the caller stops iterating: the generator stays where it is
Abandon ==
    /\ gen.pc \in Live
    /\ gen' = [gen EXCEPT !.pc = "abandoned"]
    /\ UNCHANGED <<store, cache, probes, conns, nops, mergeVars, equivVars>>

\* the abandoned generator is closed (GeneratorExit at its yield): the with
\* statement is left
GenClose ==
    /\ gen.pc = "abandoned"
    /\ gen' = [gen EXCEPT !.pc = "closed"]
    /\ conns' = IF gen.started THEN ExitQuery(gen, conns) ELSE conns
    /\ UNCHANGED <<store, cache, probes, nops, mergeVars, equivVars>>

\* a connection the reader opened and no frame holds any more is closed when
\* and if the interpreter finalizes it
Finalize(c) ==
    /\ c \in DOMAIN conns
    /\ conns[c].owner = "reader"
    /\ conns[c].open
    /\ gen.conn = c => gen.pc \in {"exhausted", "raised", "closed"}
    /\ conns' = [conns EXCEPT ![c].open = FALSE]
    /\ UNCHANGED <<store, cache, probes, gen, nops, mergeVars, equivVars>>

(***************************************************************************)
(* Specifications                                                          *)
(***************************************************************************)
PlaceIds == {1, 2}

\* MozVisit values handed to single_db_merge
MergeVisits ==
    {[url |-> u, place_id |-> p, visit_id |-> 1,
      visit_date |-> [sec |-> p, micro |-> Len(u)], visit_type |-> Len(u)] :
        u \in {TextA, TextT}, p \in PlaceIds}

\* MozPlace values handed to single_db_merge
MergeSites ==
    {[place_id |-> p, title |-> m[1], description |-> m[2],
      preview_image |-> m[3]] :
        p \in PlaceIds,
        m \in {<<TextT, NULL, NULL>>, <<NULL, TextD, TextA>>, <<NULL, NULL, NULL>>}}

\* rows of moz_places: the row with id p has a url of its own
PageRows(p) ==
    {[url |-> IF p = 1 THEN TextEsc ELSE IF p = 2 THEN TextBadEsc ELSE TextA,
      title |-> m[1], description |-> m[2], preview_image_url |-> m[3]] :
        m \in {<<NULL, NULL, NULL>>, <<TextT, NULL, NULL>>,
               <<NULL, NULL, TextImg>>, <<TextT, TextD, TextA>>}}

PageTables ==
    UNION {{t \in [1..n -> UNION {PageRows(p) : p \in 1..n}] :
               \A p \in 1..n : t[p] \in PageRows(p)} : n \in 0..MaxPages}

\* rows of moz_historyvisits; place_id may name no row of moz_places
VisitRows ==
    {[place_id |-> p, visit_date |-> d, visit_type |-> 1] :
        p \in 1..(MaxPages + 1), d \in {1500000, 2000001}}

Databases ==
    [pages : PageTables, visits : SeqsUpTo(VisitRows, MaxDbVisits),
     planVisit : {"byVisit", "byPlace"}, planCombined : {"byVisit", "byPlace"}]

NoDb == [pages |-> <<>>, visits |-> <<>>, planVisit |-> "byVisit",
         planCombined |-> "byVisit"]

MergeIdle ==
    /\ visit_list = <<>>
    /\ site_list = <<>>
    /\ site_dict = EmptyDict
    /\ mpc = "idle"
    /\ si = 0
    /\ vi = 0
    /\ out = <<>>
    /\ trace = <<>>

EquivIdle ==
    /\ db = NoDb
    /\ combined = NotRun
    /\ epc = "idle"

ReaderIdle ==
    /\ store = [p \in Paths |-> [hasMeta |-> TRUE, nrows |-> 0, badAt |-> 0]]
    /\ cache = {}
    /\ probes = [p \in Paths |-> 0]
    /\ conns = <<>>
    /\ gen = NoGen
    /\ nops = 0

\* the reader, driven by a caller
Init ==
    /\ store \in [Paths -> Stores]
    /\ cache = {}
    /\ probes = [p \in Paths |-> 0]
    /\ conns = <<>>
    /\ gen = NoGen
    /\ nops = 0
    /\ MergeIdle
    /\ EquivIdle

Next ==
    \/ \E p \in Paths : SanityCheckCall(p)
    \/ \E p \in Paths : CallerConnect(p)
    \/ \E p \in Paths : StartQueryPath(p)
    \/ \E c \in DOMAIN conns : StartQueryConn(c)
    \/ Resume
    \/ Abandon
    \/ GenClose
    \/ \E c \in DOMAIN conns : Finalize(c)

Spec == Init /\ [][Next]_vars

\* single_db_merge on arbitrary lists
InitMerge ==
    /\ visit_list \in SeqsUpTo(MergeVisits, MaxVisits)
    /\ site_list \in SeqsUpTo(MergeSites, MaxSites)
    /\ site_dict = EmptyDict
    /\ mpc = "build"
    /\ si = 0
    /\ vi = 0
    /\ out = <<>>
    /\ trace = <<>>
    /\ EquivIdle
    /\ ReaderIdle

NextMerge ==
    \/ MergeBuildPull
    \/ MergeBuildEnd
    \/ MergeEmitPull
    \/ MergeEmitEnd

SpecMerge == InitMerge /\ [][NextMerge]_vars

\* one store read by read_visits and by visits + sitedata + merge
InitEquiv ==
    /\ db \in Databases
    /\ combined = NotRun
    /\ epc = "visits"
    /\ MergeIdle
    /\ ReaderIdle

NextEquiv ==
    \/ LoadVisits
    \/ LoadSitedata
    \/ LoadCombined
    \/ MergeBuildPull
    \/ MergeBuildEnd
    \/ MergeEmitPull
    \/ MergeEmitEnd

SpecEquiv == InitEquiv /\ [][NextEquiv]_vars

(***************************************************************************)
(* Properties                                                              *)
(***************************************************************************)
Max(S) == CHOOSE x \in S : \A y \in S : y <= x

\* indices of the elements of site_list with the place_id of visit v
Matches(v) == {j \in 1..Len(site_list) : site_list[j].place_id = v.place_id}

\* C1: single_db_merge, fully consumed, yields one Visit per element of
\* visit_list, the i-th with the url, visit_date and visit_type of the i-th
\* visit: nothing is dropped, duplicated or reordered (checked under SpecMerge)
C1_MergeKeepsEveryVisit ==
    /\ Len(out) = vi
    /\ mpc = "done" => Len(out) = Len(visit_list)
    /\ \A i \in 1..Len(out) :
          /\ i <= Len(visit_list)
          /\ out[i].url = visit_list[i].url
          /\ out[i].visit_date = visit_list[i].visit_date
          /\ out[i].visit_type = visit_list[i].visit_type

\* two equal visits were merged and both came out
C1_Witness ==
    /\ mpc = "done"
    /\ Len(visit_list) = 2
    /\ visit_list[1] = visit_list[2]
    /\ Len(out) = 2

\* C2: the title, description and preview_image of the Visit yielded for a
\* visit are those of the last element of site_list with its place_id, and
\* all three NULL when no element has it (checked under SpecMerge)
C2_LastMatchingSiteWins ==
    mpc = "done" =>
        \A i \in 1..Len(visit_list) :
            /\ i <= Len(out)
            /\ LET ms == Matches(visit_list[i])
               IN  IF ms = {}
                   THEN /\ out[i].title = NULL
                        /\ out[i].description = NULL
                        /\ out[i].preview_image = NULL
                   ELSE /\ out[i].title = site_list[Max(ms)].title
                        /\ out[i].description = site_list[Max(ms)].description
                        /\ out[i].preview_image = site_list[Max(ms)].preview_image

\* a visit whose place_id two different elements of site_list carry, and
\* another visit that no element matches
C2_Witness ==
    /\ mpc = "done"
    /\ \E i \in 1..Len(visit_list) :
          \E j, k \in Matches(visit_list[i]) :
              j < k /\ site_list[j].title # site_list[k].title
    /\ \E i \in 1..Len(visit_list) : Matches(visit_list[i]) = {}

\* C10: single_db_merge pulls site_list to its end, once, before it pulls
\* the first visit or yields the first Visit (checked under SpecMerge)
C10_SitesConsumedBeforeVisits ==
    /\ \A i \in DOMAIN trace :
          trace[i] \in {"pullV", "yield"} =>
              /\ \E j \in 1..(i - 1) : trace[j] = "endM"
              /\ \A j \in DOMAIN trace : j > i => trace[j] \notin {"pullM", "endM"}
    /\ \A i \in DOMAIN trace :
          trace[i] = "endM" =>
              /\ i = Len(site_list) + 1
              /\ \A j \in 1..(i - 1) : trace[j] = "pullM"
    /\ (vi > 0 \/ out # <<>>) => si = Len(site_list)

\* a merge of two sites and at least one visit ran to its end
C10_Witness ==
    /\ mpc = "done"
    /\ Len(site_list) = 2
    /\ Len(visit_list) >= 1
    /\ Len(out) >= 1

\* C7 as claimed: for one store, list(read_visits) equals
\* list(single_db_merge(single_db_visits, single_db_sitedata)): same length,
\* same order, same six fields (checked under SpecEquiv)
C7_CombinedEqualsMerged == epc = "done" => out = combined

\* number of positions of sequence s that hold x
Count(s, x) == Cardinality({i \in 1..Len(s) : s[i] = x})

\* C7, amended: the two ways give the same number of Visits and the same
\* Visits, each as often in one as in the other; and the same sequence when
\* sqlite returns the rows of the two joins in the same order
C7_CombinedEqualsMergedUpToOrder ==
    epc = "done" =>
        /\ Len(out) = Len(combined)
        /\ \A x \in Range(out) \cup Range(combined) :
               Count(out, x) = Count(combined, x)
        /\ db.planVisit = db.planCombined => out = combined

\* both ways ran on a store with a visited page that has no title, no
\* description and no preview image and a visited page with an escaped
\* preview image, the two joins in different orders
C7_Witness ==
    /\ epc = "done"
    /\ Len(combined) = 2
    /\ out # combined
    /\ \E i \in 1..Len(combined) :
          /\ combined[i].title = NULL
          /\ combined[i].description = NULL
          /\ combined[i].preview_image = NULL
    /\ \E i \in 1..Len(combined) : combined[i].preview_image = <<105, 32>>
    /\ \E i \in 1..Len(combined) : combined[i].url = <<97, 32, 98>>

\* C3 as claimed: once a path query has ended (exhausted, error, or closed
\* after an early stop) the connection the reader opened for it is closed
C3_ReaderConnectionsClosed ==
    \A c \in DOMAIN conns :
        (/\ conns[c].owner = "reader"
         /\ gen.conn = c => gen.pc \in {"exhausted", "raised", "closed"})
            => ~conns[c].open

\* C4 as claimed: the moz_meta probe runs at most once for a path, whether
\* the first _sanity_check of the path returned or raised
C4_ProbeAtMostOncePerPath == \A p \in Paths : probes[p] <= 1

\* C5: a step of a query that was given a connection runs no probe and
\* leaves the cache of _sanity_check as it is
C5_ConnQuerySkipsSanityCheck ==
    [][(gen'.kind = "conn" /\ gen' # gen) => (cache' = cache /\ probes' = probes)]_vars

\* a query on a caller's connection to a store without moz_meta delivered a
\* row, and no probe ever ran for that path
C5_Witness ==
    /\ gen.kind = "conn"
    /\ ~store[gen.path].hasMeta
    /\ gen.delivered >= 1
    /\ probes[gen.path] = 0
    /\ gen.path \notin cache

\* C6: a connection the caller opened is never closed by the reader, however
\* the queries given it end
C6_CallerConnectionStaysOpen ==
    \A c \in DOMAIN conns : conns[c].owner = "caller" => conns[c].open

\* queries on a caller's connection ended: rows then the end, rows then an
\* error, or an early stop that was closed
C6_Witness ==
    /\ gen.kind = "conn"
    /\ gen.delivered >= 1
    /\ gen.pc \in {"exhausted", "raised", "closed"}
    /\ conns[gen.conn].open

\* C8: a path query on a store without moz_meta ends, once started, with the
\* error of the probe; no row was delivered, no connection was opened for
\* the query and the query was not executed
C8_NoMetaTableFailsBeforeQuery ==
    (gen.kind = "path" /\ gen.started /\ ~store[gen.path].hasMeta) =>
        /\ gen.pc = "raised"
        /\ gen.err = "SchemaError"
        /\ gen.delivered = 0
        /\ ~gen.executed
        /\ gen.conn = 0

\* the second query on such a path, whose store has rows, failed again
C8_Witness ==
    /\ gen.kind = "path"
    /\ gen.started
    /\ ~store[gen.path].hasMeta
    /\ store[gen.path].nrows >= 1
    /\ probes[gen.path] = 2
    /\ gen.pc = "raised"

\* C9 as claimed: when an error ends a query, the caller has received no
\* record of it
C9_FailedQueryYieldsNothing == gen.pc = "raised" => gen.delivered = 0

\* C9, amended: an error at the k-th fetch reaches the caller after exactly
\* the k-1 rows fetched before it; the error of the sanity check comes before
\* any row; and a query whose fetch fails never ends as exhausted
C9_ErrorFollowsDeliveredPrefix ==
    /\ (gen.pc = "raised" /\ gen.err = "ReadError") =>
           /\ store[gen.path].badAt >= 1
           /\ gen.delivered = store[gen.path].badAt - 1
    /\ (gen.pc = "raised" /\ gen.err = "SchemaError") => gen.delivered = 0
    /\ gen.pc = "exhausted" =>
           /\ store[gen.path].badAt = 0
           /\ gen.delivered = store[gen.path].nrows
    /\ gen.pc = "suspended" =>
           store[gen.path].badAt \notin 1..gen.delivered

\* a read error after one of two rows was delivered
C9_Witness ==
    /\ gen.pc = "raised"
    /\ gen.err = "ReadError"
    /\ gen.delivered = 1
    /\ store[gen.path].nrows = 2

====
